---- MODULE Spec2Model ----
(***************************************************************************)
(* AI-Travel-Planner: the session-scoped slot-filling and confirmation     *)
(* state machine (ChatManager over SessionRepository) and the parallel     *)
(* provider workflow of TravelSupervisor.                                  *)
(*                                                                         *)
(* One session is modelled; sessions only share the Redis instance and     *)
(* every key carries the session id.  Python None and an absent Redis key  *)
(* are the empty tuple; a present value v is <<v>>.  Python dicts are      *)
(* functions whose domain is the set of keys present.                      *)
(***************************************************************************)
EXTENDS Integers, Sequences, FiniteSets, TLC

Null == <<>>
Some(v) == <<v>>
EmptyDict == <<>>

(***************************************************************************)
(* Python str methods, computed character by character.                    *)
(***************************************************************************)
LowerChars == "abcdefghijklmnopqrstuvwxyz"
UpperChars == "ABCDEFGHIJKLMNOPQRSTUVWXYZ"
Whitespace == {" ", "\t", "\n"}

Char(s, i) == SubSeq(s, i, i)

IsUpper(c) == \E i \in 1..Len(UpperChars) : Char(UpperChars, i) = c
IsLower(c) == \E i \in 1..Len(LowerChars) : Char(LowerChars, i) = c
LowerOf(c) ==
    IF IsUpper(c)
    THEN Char(LowerChars, CHOOSE i \in 1..Len(UpperChars) : Char(UpperChars, i) = c)
    ELSE c

UpperOf(c) ==
    IF IsLower(c)
    THEN Char(UpperChars, CHOOSE i \in 1..Len(LowerChars) : Char(LowerChars, i) = c)
    ELSE c

RECURSIVE PyLower(_)
PyLower(s) ==
    IF s = "" THEN "" ELSE LowerOf(Char(s, 1)) \o PyLower(SubSeq(s, 2, Len(s)))

RECURSIVE LStrip(_)
LStrip(s) ==
    IF s # "" /\ Char(s, 1) \in Whitespace THEN LStrip(SubSeq(s, 2, Len(s))) ELSE s

RECURSIVE RStrip(_)
RStrip(s) ==
    IF s # "" /\ Char(s, Len(s)) \in Whitespace
    THEN RStrip(SubSeq(s, 1, Len(s) - 1))
    ELSE s

PyStrip(s) == RStrip(LStrip(s))

\* str.title(): a cased character is upper-cased after an uncased one and
\* lower-cased after a cased one.
RECURSIVE TitleFrom(_, _)
TitleFrom(s, prevCased) ==
    IF s = "" THEN ""
    ELSE LET c == Char(s, 1)
         IN (IF prevCased THEN LowerOf(c) ELSE UpperOf(c))
                \o TitleFrom(SubSeq(s, 2, Len(s)), IsUpper(c) \/ IsLower(c))

PyTitle(s) == TitleFrom(s, FALSE)

\* sub in s
Contains(sub, s) ==
    \E i \in 1..(Len(s) - Len(sub) + 1) : SubSeq(s, i, i + Len(sub) - 1) = sub

EndsWith(s, suffix) ==
    /\ Len(suffix) <= Len(s)
    /\ SubSeq(s, Len(s) - Len(suffix) + 1, Len(s)) = suffix

\* str.split(): the maximal runs of non-whitespace characters, in order.
RECURSIVE SplitFrom(_, _, _)
SplitFrom(s, cur, acc) ==
    IF s = "" THEN (IF cur = "" THEN acc ELSE Append(acc, cur))
    ELSE IF Char(s, 1) \in Whitespace
         THEN SplitFrom(SubSeq(s, 2, Len(s)), "",
                        IF cur = "" THEN acc ELSE Append(acc, cur))
         ELSE SplitFrom(SubSeq(s, 2, Len(s)), cur \o Char(s, 1), acc)

PySplit(s) == SplitFrom(s, "", <<>>)

\* the function x |-> F(x) on S with every value computed once
RECURSIVE Table(_, _)
Table(F(_), S) ==
    IF S = {} THEN <<>>
    ELSE LET x == CHOOSE y \in S : TRUE
         IN (x :> F(x)) @@ Table(F, S \ {x})

\* x in list
InList(x, list) == \E i \in 1..Len(list) : list[i] = x

\* any(keyword in text for keyword in keywords)
AnyKeywordIn(keywords, text) == \E i \in 1..Len(keywords) : Contains(keywords[i], text)

(***************************************************************************)
(* Dates.  The clock is fixed at Now; strptime is the table DateOrdinal    *)
(* (days from today) over the date strings that occur, and raises on any   *)
(* other string; strftime writes the zero-padded ISO form.                 *)
(***************************************************************************)
Now == [date |-> "2026-11-04", weekday |-> 2, first_of_next_month |-> 27,
        last_of_next_month |-> 57]

DateOrdinal ==
    [s \in {"2026-11-03", "2026-11-04", "2026-11-07", "2026-11-08", "2026-11-09",
            "2026-11-9", "2026-11-15", "2026-12-01", "2026-12-12", "2026-12-31",
            "2027-05-03", "2027-05-04"} |->
        CASE s = "2026-11-03" -> 0 - 1
          [] s = "2026-11-04" -> 0
          [] s = "2026-11-07" -> 3
          [] s = "2026-11-08" -> 4
          [] s = "2026-11-09" -> 5
          [] s = "2026-11-9"  -> 5
          [] s = "2026-11-15" -> 11
          [] s = "2026-12-01" -> 27
          [] s = "2026-12-12" -> 38
          [] s = "2026-12-31" -> 57
          [] s = "2027-05-03" -> 180
          [] s = "2027-05-04" -> 181]

strftime(d) == CHOOSE s \in DOMAIN DateOrdinal : DateOrdinal[s] = d /\ Len(s) = 10

MAX_FUTURE_DAYS == 180

\* utils/date_utils.py validate_future_date: None for a date in the past, a
\* date beyond the horizon, or a string strptime rejects.
validate_future_date(date_str) ==
    IF date_str \notin DOMAIN DateOrdinal THEN Null
    ELSE LET date == DateOrdinal[date_str]
             today == DateOrdinal[Now.date]
         IN IF date < today THEN Null
            ELSE IF date > today + MAX_FUTURE_DAYS THEN Null
            ELSE Some(strftime(date))

(***************************************************************************)
(* models/trip_details.py                                                  *)
(***************************************************************************)
Fields == {"origin", "destination", "start_date", "end_date", "travelers",
           "budget", "preferences", "confidence_levels"}

\* TripDetails(): every field None, confidence_levels an empty dict.
TripDetails ==
    [f \in Fields |-> IF f = "confidence_levels" THEN Some(EmptyDict) ELSE Null]

\* Python truthiness of a field value.
Truthy(f, v) ==
    /\ v # Null
    /\ IF f \in {"origin", "destination", "start_date", "end_date", "preferences"}
       THEN v[1] # ""
       ELSE IF f = "confidence_levels" THEN TRUE
       ELSE v[1] # 0

\* dict.get(key)
DictGet(d, k) == IF k \in DOMAIN d THEN d[k] ELSE Null

to_dict(self) == [k \in {f \in Fields : self[f] # Null} |-> self[k]]

from_dict(data) ==
    [f \in Fields |-> IF f \in DOMAIN data THEN data[f] ELSE TripDetails[f]]

update(self, new_data) ==
    [f \in Fields |->
        IF f \in DOMAIN new_data /\ new_data[f] # Null THEN new_data[f] ELSE self[f]]

missing_required_fields(self) ==
    LET add(list, f, name) == IF ~Truthy(f, self[f]) THEN Append(list, name) ELSE list
    IN add(add(add(add(add(<<>>, "destination", "destination"),
                       "origin", "origin"),
                   "start_date", "start date"),
               "end_date", "end date"),
           "travelers", "number of travelers")

missing_optional_fields(self) ==
    LET add(list, f, name) == IF ~Truthy(f, self[f]) THEN Append(list, name) ELSE list
    IN add(add(<<>>, "budget", "budget"), "preferences", "activity preferences")

\* a readiness test that forgets the departure city
is_ready_without_origin(self) ==
    \A f \in {"destination", "start_date", "end_date", "travelers"} : Truthy(f, self[f])

is_ready_for_confirmation(self) == Len(missing_required_fields(self)) = 0

needs_date_confirmation(self) ==
    /\ Truthy("start_date", self.start_date)
    /\ Truthy("end_date", self.end_date)
    /\ \/ DictGet(self.confidence_levels[1], "start_date") = Some("inferred")
       \/ DictGet(self.confidence_levels[1], "end_date") = Some("inferred")

(***************************************************************************)
(* Confirmation classification.                                            *)
(***************************************************************************)
confirmation_keywords ==
    <<"yes", "yeah", "yep", "sure", "ok", "okay", "proceed",
      "confirm", "book", "go ahead", "sounds good", "please">>

direct_matches ==
    <<"yes", "yes please", "yes, please", "sure", "ok", "okay", "proceed", "go ahead">>

negation_prefixes == <<"don't", "do not", "cannot", "can't", "not">>

negation_words == <<"no", "nope", "don't", "not", "cancel">>

negation_before_confirmation(message_lower, keywords) ==
    \E i \in 1..Len(negation_prefixes), j \in 1..Len(keywords) :
        Contains(negation_prefixes[i] \o " " \o keywords[j], message_lower)

\* any(x in message_lower.split() for x in list)
AnyWordIn(list, message_lower) ==
    LET words == PySplit(message_lower)
    IN \E i \in 1..Len(list) : InList(list[i], words)

\* the classifier of backend/main.py: any phrase occurring in the text
check_confirmation_any_phrase(message) ==
    AnyKeywordIn(confirmation_keywords, PyLower(message))

\* the classifier without its final negation test
check_confirmation_ignoring_negation(message) ==
    LET message_lower == PyStrip(PyLower(message))
    IN IF InList(message_lower, direct_matches) THEN TRUE
       ELSE IF negation_before_confirmation(message_lower, confirmation_keywords) THEN FALSE
       ELSE AnyWordIn(confirmation_keywords, message_lower)

\* ChatManager._check_confirmation
check_confirmation(message) ==
    LET message_lower == PyStrip(PyLower(message))
        has_confirmation == AnyWordIn(confirmation_keywords, message_lower)
        has_negation == AnyWordIn(negation_words, message_lower)
    IN IF InList(message_lower, direct_matches) THEN TRUE
       ELSE IF negation_before_confirmation(message_lower, confirmation_keywords) THEN FALSE
       ELSE has_confirmation /\ ~has_negation

\* AssistantsManager._check_confirmation: no "please", no direct matches, no strip.
assistants_confirmation_keywords == SubSeq(confirmation_keywords, 1, 11)

assistants_check_confirmation(message) ==
    LET message_lower == PyLower(message)
        has_confirmation == AnyWordIn(assistants_confirmation_keywords, message_lower)
        has_negation == AnyWordIn(negation_words, message_lower)
    IN IF negation_before_confirmation(message_lower, assistants_confirmation_keywords)
       THEN FALSE
       ELSE has_confirmation /\ ~has_negation

(***************************************************************************)
(* The user's utterances, each with the JSON the extraction model returns  *)
(* for it when the call succeeds: what the utterance states, null for the  *)
(* rest.                                                                   *)
(***************************************************************************)
ExtractKeys == {"origin", "destination", "start_date", "end_date", "travelers",
                "budget", "preferences"}

Utterance(text, stated, date_reference) ==
    [text |-> text,
     response |->
        [k \in ExtractKeys \cup {"date_reference"} |->
            IF k = "date_reference" THEN date_reference
            ELSE IF k \in DOMAIN stated THEN Some(stated[k]) ELSE Null]]

Messages ==
    {Utterance("yes", <<>>, Null),
     Utterance("don't confirm", <<>>, Null),
     Utterance("I wanna visit paris next week", [destination |-> " paris"],
               Some("next_week")),
     Utterance("Rome, December 1st to 12th, 2 of us, budget 1000, we like museums",
               [destination |-> "Rome", start_date |-> "2026-12-01",
                end_date |-> "2026-12-12", travelers |-> 2, budget |-> 1000,
                preferences |-> "museums "], Null),
     Utterance("from 2026-11-03 until 2027-05-04",
               [start_date |-> "2026-11-03", end_date |-> "2027-05-04"], Null),
     Utterance("from 2026-11-9 until 2027-05-03",
               [start_date |-> "2026-11-9", end_date |-> "2027-05-03"], Null),
     Utterance("sorry, we leave on the 12th", [start_date |-> "2026-12-12"], Null),
     Utterance("show me a different hotel", <<>>, Null),
     Utterance("create itinerary", <<>>, Null),
     Utterance("a more Detailed plan", <<>>, Null),
     Utterance("Me and my wife, we fly from Boston",
               [origin |-> "Boston", travelers |-> 2], Null)}

\* str.strip().title() and str.strip() over the strings that occur, computed
\* once: those the utterances state and what cleaning makes of them
Stated(k) == {m.response[k][1] : m \in {u \in Messages : u.response[k] # Null}}

TitleOf ==
    LET F(s) == PyTitle(PyStrip(s))
    IN Table(F, Stated("destination") \cup {F(t) : t \in Stated("destination")})

StripOf ==
    Table(PyStrip, Stated("preferences") \cup {PyStrip(t) : t \in Stated("preferences")})

(***************************************************************************)
(* Python re: a backtracking matcher over the syntax tree of a pattern.    *)
(* Match gives the ways the pattern matches the text at position i, in the *)
(* order backtracking tries them: each is the position after the match and *)
(* the text of group 1 (every pattern used has exactly one group).         *)
(***************************************************************************)
Digits == "0123456789"
SpaceChars == " \t\n\r\f"

Lit(str) == [t |-> "lit", s |-> str]
OneOf(chars) == [t |-> "set", chars |-> chars, neg |-> FALSE]
NoneOf(chars) == [t |-> "set", chars |-> chars, neg |-> TRUE]
Cat(rs) == [t |-> "seq", rs |-> rs]
Alt(rs) == [t |-> "alt", rs |-> rs]
\* r{min,max}, greedy; max is Null for no upper limit
Rep(r, min, max) == [t |-> "rep", r |-> r, min |-> min, max |-> max]
Group(r) == [t |-> "grp", r |-> r]
AtEnd == [t |-> "end"]

Words(ws) == Alt([k \in 1..Len(ws) |-> Lit(ws[k])])
Plus(r) == Rep(r, 1, Null)
Star(r) == Rep(r, 0, Null)
Opt(r) == Rep(r, 0, Some(1))
D == OneOf(Digits)
S == OneOf(SpaceChars)

RECURSIVE Match(_, _, _, _)
RECURSIVE MatchCat(_, _, _, _, _)
RECURSIVE ThenCat(_, _, _, _, _)
RECURSIVE MatchAlt(_, _, _, _, _)
RECURSIVE MatchRep(_, _, _, _, _)
RECURSIVE ThenRep(_, _, _, _, _)

Match(re, s, i, cap) ==
    CASE re.t = "lit" ->
            IF i + Len(re.s) - 1 <= Len(s) /\ SubSeq(s, i, i + Len(re.s) - 1) = re.s
            THEN <<<<i + Len(re.s), cap>>>>
            ELSE <<>>
      [] re.t = "set" ->
            IF i <= Len(s) /\ (Contains(Char(s, i), re.chars) # re.neg)
            THEN <<<<i + 1, cap>>>>
            ELSE <<>>
      [] re.t = "seq" -> MatchCat(re.rs, 1, s, i, cap)
      [] re.t = "alt" -> MatchAlt(re.rs, 1, s, i, cap)
      [] re.t = "rep" -> MatchRep(re, 0, s, i, cap)
      [] re.t = "grp" ->
            LET inner == Match(re.r, s, i, cap)
            IN [j \in 1..Len(inner) |-> <<inner[j][1], Some(SubSeq(s, i, inner[j][1] - 1))>>]
      [] re.t = "end" ->
            IF i = Len(s) + 1 \/ (i = Len(s) /\ Char(s, i) = "\n")
            THEN <<<<i, cap>>>>
            ELSE <<>>

MatchCat(rs, k, s, i, cap) ==
    IF k > Len(rs) THEN <<<<i, cap>>>>
    ELSE ThenCat(Match(rs[k], s, i, cap), 1, rs, k + 1, s)

ThenCat(found, j, rs, k, s) ==
    IF j > Len(found) THEN <<>>
    ELSE MatchCat(rs, k, s, found[j][1], found[j][2]) \o ThenCat(found, j + 1, rs, k, s)

MatchAlt(rs, k, s, i, cap) ==
    IF k > Len(rs) THEN <<>>
    ELSE Match(rs[k], s, i, cap) \o MatchAlt(rs, k + 1, s, i, cap)

MatchRep(re, n, s, i, cap) ==
    LET Advances(found) == found[1] > i
        again == IF re.max # Null /\ n >= re.max[1] THEN <<>>
                 ELSE ThenRep(SelectSeq(Match(re.r, s, i, cap), Advances), 1, re, n + 1, s)
    IN again \o (IF n >= re.min THEN <<<<i, cap>>>> ELSE <<>>)

ThenRep(found, j, re, n, s) ==
    IF j > Len(found) THEN <<>>
    ELSE MatchRep(re, n, s, found[j][1], found[j][2]) \o ThenRep(found, j + 1, re, n, s)

\* re.search from position from on: the leftmost match, or Null
SearchFrom(re, s, from) ==
    LET starts == {i \in from..(Len(s) + 1) : Match(re, s, i, Null) # <<>>}
    IN IF starts = {} THEN Null
       ELSE LET i == CHOOSE x \in starts : \A y \in starts : x <= y
                m == Match(re, s, i, Null)[1]
            IN Some([start |-> i, end |-> m[1], group |-> m[2][1]])

search(re, s) == SearchFrom(re, s, 1)

\* re.findall for a pattern with one group: the group of every match
RECURSIVE FindAllFrom(_, _, _)
FindAllFrom(re, s, from) ==
    LET m == SearchFrom(re, s, from)
    IN IF m = Null THEN <<>>
       ELSE <<m[1].group>>
                \o FindAllFrom(re, s, IF m[1].end > m[1].start THEN m[1].end
                                      ELSE m[1].start + 1)

findall(re, s) == FindAllFrom(re, s, 1)

\* int() of a string of digits
RECURSIVE PyInt(_)
PyInt(s) ==
    IF s = "" THEN 0
    ELSE 10 * PyInt(SubSeq(s, 1, Len(s) - 1))
            + (CHOOSE d \in 0..9 : Char(Digits, d + 1) = Char(s, Len(s)))

\* str.replace(old, "") for a one-character old
RECURSIVE Without(_, _)
Without(s, old) ==
    IF s = "" THEN ""
    ELSE (IF Char(s, 1) = old THEN "" ELSE Char(s, 1)) \o Without(SubSeq(s, 2, Len(s)), old)

\* s < t for strings of digits and hyphens, in code-point order
DateChars == "-0123456789"
CodeOf(c) == CHOOSE k \in 1..Len(DateChars) : Char(DateChars, k) = c

RECURSIVE StrLess(_, _)
StrLess(s, t) ==
    IF t = "" THEN FALSE
    ELSE IF s = "" THEN TRUE
    ELSE IF Char(s, 1) = Char(t, 1) THEN StrLess(SubSeq(s, 2, Len(s)), SubSeq(t, 2, Len(t)))
    ELSE CodeOf(Char(s, 1)) < CodeOf(Char(t, 1))

\* list.sort() of date strings
RECURSIVE SortDates(_)
SortDates(list) ==
    IF list = <<>> THEN <<>>
    ELSE LET k == CHOOSE x \in 1..Len(list) :
                    \A y \in 1..Len(list) :
                        ~StrLess(list[y], list[x]) /\ (list[y] = list[x] => x <= y)
         IN <<list[k]>> \o SortDates(SubSeq(list, 1, k - 1) \o SubSeq(list, k + 1, Len(list)))

(***************************************************************************)
(* utils/date_utils.py parse_date.  dateutil's parser is the table         *)
(* DateOrdinal, like strptime: it raises on any other string.              *)
(***************************************************************************)
IsoDate == Cat(<<Rep(D, 4, Some(4)), Lit("-"), Rep(D, 2, Some(2)), Lit("-"),
                 Rep(D, 2, Some(2))>>)

parse_date(text) ==
    IF Match(Cat(<<IsoDate, AtEnd>>), text, 1, Null) # <<>> THEN Some(text)
    ELSE IF text \in DOMAIN DateOrdinal THEN Some(strftime(DateOrdinal[text]))
    ELSE Null

(***************************************************************************)
(* services/extraction/regex_extractor.py.  The lower-cased message is     *)
(* ASCII, so the currency signs outside ASCII in the budget pattern are    *)
(* left out, and "USD" stays although it cannot match a lower-cased text.  *)
(***************************************************************************)
destination_patterns ==
    LET to == Words(<<"to", "in", "visit", "going to", "travel to", "trip to">>)
        place == Group(Plus(OneOf(LowerChars \o SpaceChars)))
    IN <<Cat(<<to, Plus(S), place,
               Cat(<<Plus(S), Words(<<"from", "in", "on", "for", "with">>)>>)>>),
         Cat(<<to, Plus(S), place, Alt(<<AtEnd, Lit(".")>>)>>)>>

traveler_patterns ==
    <<Cat(<<Group(Plus(D)), Plus(S),
            Words(<<"people", "travelers", "persons", "adults">>)>>),
      Cat(<<Words(<<"we are", "we're">>), Plus(S),
            Opt(Words(<<"a group of", "a family of">>)), Star(S), Group(Plus(D))>>),
      Cat(<<Words(<<"with", "and">>), Plus(S), Group(Plus(D)), Plus(S),
            Words(<<"other", "more">>), Plus(S),
            Words(<<"people", "friends", "family", "travelers">>)>>),
      Cat(<<Words(<<"total of", "group of">>), Plus(S), Group(Plus(D)), Plus(S),
            Words(<<"people", "travelers", "persons">>)>>)>>

\* "other" in pattern
traveler_pattern_names_others == <<FALSE, FALSE, TRUE, FALSE>>

date_patterns ==
    LET month == Words(<<"jan", "feb", "mar", "apr", "may", "jun", "jul", "aug",
                         "sep", "oct", "nov", "dec">>)
        day == Cat(<<Rep(D, 1, Some(2)), Opt(Words(<<"st", "nd", "rd", "th">>)), Plus(S)>>)
        written == Group(Cat(<<Opt(day), month, Star(OneOf(LowerChars)),
                               Opt(Cat(<<Plus(S), Rep(D, 2, Some(4))>>))>>))
    IN <<Cat(<<Words(<<"from", "on", "starting">>), Plus(S), written>>),
         Cat(<<Words(<<"until", "to", "ending", "through">>), Plus(S), written>>),
         Group(IsoDate)>>

duration_pattern ==
    Cat(<<Words(<<"for", "planning">>), Plus(S), Group(Plus(D)), Plus(S),
          Words(<<"days", "nights">>)>>)

budget_pattern ==
    Cat(<<Lit("budget"), Plus(S), Opt(Words(<<"of", "is", ":">>)), Star(S),
          Opt(Words(<<"USD", "$">>)),
          Group(Cat(<<Plus(D), Opt(Cat(<<Lit(","), Plus(D)>>))>>))>>)

activity_patterns ==
    <<Cat(<<Words(<<"interested in", "looking for", "want to do", "activities like",
                    "activities such as", "prefer">>),
            Plus(S), Group(Plus(NoneOf(".?!")))>>)>>

\* the first pattern of the list that matches: its index and match, or Null
FirstMatch(patterns, s) ==
    LET hits == {k \in 1..Len(patterns) : search(patterns[k], s) # Null}
    IN IF hits = {} THEN Null
       ELSE LET k == CHOOSE x \in hits : \A y \in hits : x <= y
            IN Some([index |-> k, match |-> search(patterns[k], s)[1]])

\* RegexEntityExtractor._extract_trip_details
extract_trip_details(text) ==
    LET message == PyLower(text)
        destination == FirstMatch(destination_patterns, message)
        counted == FirstMatch(traveler_patterns, message)
        other_match ==
            IF Contains("with", message) /\ Contains("other", message)
            THEN search(Cat(<<Lit("with"), Plus(S), Group(Plus(D)), Plus(S), Lit("other")>>),
                        message)
            ELSE Null
        travelers ==
            IF other_match # Null THEN Some(PyInt(other_match[1].group) + 1)
            ELSE IF counted = Null THEN Null
            ELSE Some(PyInt(counted[1].match.group)
                        + (IF traveler_pattern_names_others[counted[1].index] THEN 1 ELSE 0))
        dates == findall(date_patterns[1], message) \o findall(date_patterns[2], message)
                    \o findall(date_patterns[3], message)
        Parses(date_str) == parse_date(date_str) # Null
        parsed == SelectSeq(dates, Parses)
        parsed_dates == SortDates([k \in 1..Len(parsed) |-> parse_date(parsed[k])[1]])
        duration_match ==
            IF Len(parsed_dates) <= 1 THEN search(duration_pattern, message) ELSE Null
        duration == PyInt(duration_match[1].group)
        suggested_start == DateOrdinal[Now.date] + 14
        start_date ==
            IF parsed_dates # <<>> THEN Some(parsed_dates[1])
            ELSE IF duration_match # Null THEN Some(strftime(suggested_start))
            ELSE Null
        end_date ==
            IF Len(parsed_dates) > 1 THEN Some(parsed_dates[2])
            ELSE IF duration_match = Null THEN Null
            ELSE IF parsed_dates # <<>>
            THEN Some(strftime(DateOrdinal[parsed_dates[1]] + duration))
            ELSE Some(strftime(suggested_start + duration))
        budget_match == search(budget_pattern, message)
        activity == FirstMatch(activity_patterns, message)
        found ==
            [destination |->
                IF destination = Null THEN Null
                ELSE Some(PyTitle(PyStrip(destination[1].match.group))),
             travelers |-> travelers,
             start_date |-> start_date,
             end_date |-> end_date,
             budget |->
                IF budget_match = Null THEN Null
                ELSE Some(PyInt(Without(budget_match[1].group, ","))),
             preferences |->
                IF activity = Null THEN Null ELSE Some(PyStrip(activity[1].match.group))]
    IN [k \in {f \in DOMAIN found : found[f] # Null} |-> found[k]]

\* RegexEntityExtractor.extract
regex_extract(message) == from_dict(extract_trip_details(message))

(***************************************************************************)
(* services/extraction: LLMEntityExtractor as wired by ExtractorFactory.   *)
(***************************************************************************)
\* ExtractorFactory.create_extractor: only "hybrid" and unknown types get the
\* regex fallback.
create_extractor(type) ==
    [kind |-> IF type = "regex" THEN "regex" ELSE "llm",
     fallback_extractor |-> type \notin {"regex", "llm"}]

validate_against_existing(new_data, existing) ==
    LET new_start == DictGet(new_data, "start_date")
        confusion ==
            /\ Truthy("start_date", new_start)
            /\ Truthy("start_date", existing.start_date)
            /\ new_start # existing.start_date
            /\ EndsWith(existing.start_date[1], "01")
            /\ EndsWith(new_start[1], "12")
        validated ==
            [k \in DOMAIN new_data |->
                IF k = "start_date" /\ confusion THEN existing.start_date
                ELSE new_data[k]]
    IN [k \in DOMAIN validated |->
            IF validated[k] = Null /\ k \in Fields /\ existing[k] # Null
            THEN existing[k]
            ELSE validated[k]]

clean_extracted_data(data, message, date_reference) ==
    LET known == date_reference # Null /\ date_reference[1] \in {"next_week", "next_month", "this_weekend"}
        today == DateOrdinal[Now.date]
        ref == date_reference[1]
        ref_start ==
            CASE ref = "next_week" -> today + (7 - Now.weekday)
              [] ref = "next_month" -> Now.first_of_next_month
              [] ref = "this_weekend" -> today + ((5 - Now.weekday) % 7)
        ref_end ==
            CASE ref = "next_week" -> ref_start + 6
              [] ref = "next_month" -> Now.last_of_next_month
              [] ref = "this_weekend" -> ref_start + 1
        has(k) == Truthy(k, DictGet(data, k))
        keys == {k \in {"destination", "travelers", "budget", "preferences"} : has(k)}
                    \cup {k \in {"start_date", "end_date"} : has(k) \/ known}
                    \cup {"confidence_levels"}
        inferred == [k \in {"start_date", "end_date"} |-> Some("inferred")]
    IN [k \in keys |->
            CASE k = "destination" -> Some(TitleOf[data[k][1]])
              [] k = "start_date" ->
                    IF known THEN Some(strftime(ref_start))
                    ELSE validate_future_date(data[k][1])
              [] k = "end_date" ->
                    IF known THEN Some(strftime(ref_end))
                    ELSE validate_future_date(data[k][1])
              [] k = "travelers" -> data[k]
              [] k = "budget" -> data[k]
              [] k = "preferences" -> Some(StripOf[data[k][1]])
              [] k = "confidence_levels" ->
                    Some(IF known THEN inferred ELSE EmptyDict)]

\* LLMEntityExtractor.extract of the extractor main.py builds.  response is
\* the parsed JSON of the model's reply, or Null when the call raises or the
\* reply does not parse; create_extractor("llm"), as main.py calls it, has no
\* fallback_extractor, so the except branch returns TripDetails().
extract(message, existing_details, response) ==
    IF response = Null
    THEN TripDetails
    ELSE LET extracted_data == [k \in ExtractKeys |-> response[1][k]]
             date_reference == response[1].date_reference
             validated == validate_against_existing(extracted_data, existing_details)
         IN from_dict(clean_extracted_data(validated, message, date_reference))

(***************************************************************************)
(* repositories/session_repository.py: one value per Redis key.            *)
(***************************************************************************)
get_trip_details(key) == IF key # Null THEN from_dict(key[1]) ELSE TripDetails

\* a write that replaces the stored dict by the new one
update_trip_details_overwriting(key, details) == Some(details)

update_trip_details(key, details) ==
    Some(to_dict(update(get_trip_details(key), details)))

is_confirmed(key) == IF key # Null THEN key = Some("1") ELSE FALSE

set_confirmed(flag) == Some(IF flag THEN "1" ELSE "0")

has_itinerary(key) == key # Null

\* a write that never reaches the itinerary key
set_itinerary_lost(text) == Null

set_itinerary(text) == Some(text)

(***************************************************************************)
(* services/customizers/customizer_agent.py                                *)
(***************************************************************************)
\* the methods class HotelService defines
HotelServiceMethods ==
    {"start", "clear_and_fill_location", "set_travelers", "select_dates",
     "search_hotels", "close", "scrape_hotels", "get_hotel_url",
     "get_hotel_recommendations", "get_hotels", "get_best_hotels"}

selection_keywords == <<"select", "choose", "book", "want", "prefer", "take", "go with">>

\* CustomizerAgent._understand_request: a selection when a selection keyword
\* occurs in the text and some word that is a keyword has words after it.
is_selection(message) ==
    LET message_lower == PyLower(message)
        parts == PySplit(message_lower)
    IN /\ AnyKeywordIn(selection_keywords, message_lower)
       /\ \E i \in 1..Len(parts) : InList(parts[i], selection_keywords) /\ i + 1 <= Len(parts)

\* CustomizerAgent.customize_trip with customization_type "hotel": both paths
\* of _handle_hotel_customization call a HotelService method, and an
\* AttributeError is turned into an error result carrying str(e).
customize_trip(message) ==
    LET method == IF is_selection(message) THEN "get_hotel_by_name"
                  ELSE "get_alternative_hotels"
    IN IF method \in HotelServiceMethods
       THEN [status |-> "success", needs_new_itinerary |-> FALSE,
             message |-> "<hotel options>"]
       ELSE [status |-> "error", needs_new_itinerary |-> FALSE,
             message |-> "Hotel customization failed: 'HotelService' object has no attribute '"
                            \o method \o "'"]

(***************************************************************************)
(* State.                                                                  *)
(***************************************************************************)
VARIABLES
    trip_details,    \* Redis key session:<id>:trip_details (the JSON dict)
    confirmed,       \* Redis key session:<id>:confirmed
    itinerary,       \* Redis key session:<id>:itinerary
    cost_breakdown,  \* Redis key session:<id>:cost_breakdown
    messages,        \* Redis list session:<id>:messages (the role of each entry)
    pc,              \* where the turn in flight is suspended, "idle" if none
    turn,            \* the locals of the last process_message call
    task,            \* the three asyncio tasks of _run_parallel_agents
    call,            \* how each provider call ended
    result,          \* what each agent coroutine returned
    state,           \* TravelState of the workflow in flight
    prompt           \* the bundle _create_itinerary put in front of the model

store == <<trip_details, confirmed, itinerary, cost_breakdown>>
workflow == <<task, call, result, state, prompt>>
vars == <<trip_details, confirmed, itinerary, cost_breakdown, messages, pc, turn, task,
          call, result, state, prompt>>

Agents == {"flights", "hotels", "activities"}

\* slots of TravelState
EmptyList == [kind |-> "list", items |-> 0]
ErrorMarker(e) == [kind |-> "error", error |-> e]
NoneValue == [kind |-> "None"]
ProviderValue(a) == [kind |-> "value", of |-> a]

NoTurn ==
    [seq |-> 0, message |-> "", extraction |-> "none", fault |-> "none",
     handler |-> "none", check |-> Null, plan_calls |-> 0, response |-> Null,
     raised |-> FALSE]

NoWorkflow ==
    /\ task = [a \in Agents |-> "none"]
    /\ call = [a \in Agents |-> "none"]
    /\ result = [a \in Agents |-> Null]
    /\ state = Null
    /\ prompt = Null

\* The Redis instance outlives the process: the session is new, or holds a
\* departure city (a field no extractor writes).
Init ==
    /\ trip_details \in {Null, Some([origin |-> Some("Boston"),
                                     confidence_levels |-> Some(EmptyDict)])}
    /\ confirmed = Null
    /\ itinerary = Null
    /\ cost_breakdown = Null
    /\ messages = <<>>
    /\ pc = "idle"
    /\ turn = NoTurn
    /\ NoWorkflow

(***************************************************************************)
(* managers/chat_manager.py: ChatManager.process_message                   *)
(***************************************************************************)
itinerary_keywords ==
    <<"create itinerary", "make itinerary", "plan my days", "day by day plan">>

hotel_keywords ==
    <<"customize hotel", "change hotel", "different hotel", "hotel preference",
      "hotel option", "hotel amenities", "hotel location", "hotel price">>

DateErrorResponse ==
    "Please ensure your start date and end date are valid and within the next 6 months."
ChatErrorResponse ==
    "I'm having trouble processing your request right now. Could you please try again?"
PlanErrorResponse ==
    "I'm sorry, but I encountered an error while planning your trip. Please try again."
FollowupErrorResponse ==
    "I'm sorry, but I encountered an error while processing your question. Could you please try again?"
DefaultItinerary == "I've created your travel plan based on your preferences."

\* what process_message computes from the text alone, once per utterance
TextFacts ==
    LET F(text) ==
            [itinerary_request |-> AnyKeywordIn(itinerary_keywords, PyLower(text)),
             hotel_request |-> AnyKeywordIn(hotel_keywords, PyLower(text)),
             check |-> check_confirmation(text),
             substantial |-> \/ Contains("day-by-day", PyLower(text))
                             \/ Contains("detailed", PyLower(text)),
             customization |-> customize_trip(text)]
    IN Table(F, {m.text : m \in Messages})

\* how the extraction call of the turn ended: "parsed", "failed", or "none"
\* when the turn made no such call
Extraction(m) == IF "extraction" \in DOMAIN m THEN m.extraction ELSE "none"

Returned(m, handler, check, response) ==
    [seq |-> 1 - turn.seq, message |-> m.text, extraction |-> Extraction(m),
     fault |-> IF "fault" \in DOMAIN m THEN m.fault ELSE "none",
     handler |-> handler, check |-> check, plan_calls |-> 0,
     response |-> Some(response), raised |-> FALSE]

NewWorkflow ==
    /\ task' = [a \in Agents |-> "none"]
    /\ call' = [a \in Agents |-> "none"]
    /\ result' = [a \in Agents |-> Null]
    /\ state' = Null
    /\ prompt' = Null

\* TravelSupervisor.plan_trip: initial_state
initial_state(details) ==
    [trip_details |-> to_dict(details), flights |-> EmptyList, hotels |-> EmptyList,
     activities |-> EmptyList, itinerary |-> ""]

\* lines 97-106: trip_details is a TripDetails, which has no get()
itinerary_request(m) ==
    /\ turn' = [seq |-> 1 - turn.seq, message |-> m.text, extraction |-> "none",
                fault |-> "none", handler |-> "itinerary_request", check |-> Null,
                plan_calls |-> 0, response |-> Null, raised |-> TRUE]
    /\ pc' = "idle"
    /\ NewWorkflow
    /\ UNCHANGED store

\* ChatManager.handle_hotel_customization
handle_hotel_customization(m) ==
    LET details == get_trip_details(trip_details)
        outcome == TextFacts[m.text].customization
    IN /\ turn' = Returned(m, "hotel_customization", Null, outcome.message)
       /\ pc' = "idle"
       /\ NewWorkflow
       /\ UNCHANGED store

\* a follow-up handler that stores every reply
handle_followup_question_storing(m) ==
    \E ok \in BOOLEAN :
        /\ turn' = Returned(m, "followup", Null,
                            IF ok THEN "<follow-up reply>" ELSE FollowupErrorResponse)
        /\ itinerary' = IF ok THEN set_itinerary("<follow-up reply>") ELSE itinerary
        /\ pc' = "idle"
        /\ NewWorkflow
        /\ UNCHANGED <<confirmed, cost_breakdown>>

\* ChatManager._handle_followup_question
handle_followup_question(m) ==
    \E ok \in BOOLEAN :
        /\ turn' = Returned(m, "followup", Null,
                            IF ok THEN "<follow-up reply>" ELSE FollowupErrorResponse)
        /\ itinerary' = IF ok /\ TextFacts[m.text].substantial
                        THEN set_itinerary("<follow-up reply>")
                        ELSE itinerary
        /\ pc' = "idle"
        /\ NewWorkflow
        /\ UNCHANGED <<confirmed, cost_breakdown>>

\* lines 153-159: set_confirmed, then _generate_itinerary up to the call of
\* plan_trip, where the turn is suspended
confirm_and_plan(m, details) ==
    /\ confirmed' = set_confirmed(TRUE)
    /\ turn' = [seq |-> 1 - turn.seq, message |-> m.text, extraction |-> Extraction(m),
                fault |-> IF "fault" \in DOMAIN m THEN m.fault ELSE "none",
                handler |-> "planning", check |-> Some(TRUE),
                plan_calls |-> 1, response |-> Null, raised |-> FALSE]
    /\ pc' = "start"
    /\ task' = [a \in Agents |-> "none"]
    /\ call' = [a \in Agents |-> "none"]
    /\ result' = [a \in Agents |-> Null]
    /\ state' = Some(initial_state(details))
    /\ prompt' = Null
    /\ UNCHANGED <<itinerary, cost_breakdown>>

\* ChatManager._create_context_message: the lines of the context message.
\* A line is the text the code writes or, for a value of the profile or a
\* missing field, what it is about; the marks before them are left out.
Line(text) == [kind |-> "text", text |-> text]

create_context_message(details, missing_required, missing_optional) ==
    LET FieldOrder == <<"origin", "destination", "start_date", "end_date", "travelers",
                        "budget", "preferences", "confidence_levels">>
        Known(key) == details[key] # Null /\ key # "confidence_levels"
        known == SelectSeq(FieldOrder, Known)
    IN <<Line("Current trip information:")>>
        \o [k \in 1..Len(known) |->
                [kind |-> "known", key |-> known[k], value |-> details[known[k]][1]]]
        \o (IF missing_required # <<>> \/ missing_optional # <<>>
            THEN <<Line("MISSING INFORMATION:")>>
                 \o (IF missing_required # <<>>
                     THEN <<Line("Required (must collect):")>>
                          \o [k \in 1..Len(missing_required) |->
                                 [kind |-> "required", field |-> missing_required[k]]]
                     ELSE <<>>)
                 \o (IF missing_optional # <<>>
                     THEN <<Line("Optional (should try to collect):")>>
                          \o [k \in 1..Len(missing_optional) |->
                                 [kind |-> "optional", field |-> missing_optional[k]]]
                     ELSE <<>>)
                 \o <<Line("Please focus on collecting the missing required information first.")>>
            ELSE <<Line("All required and optional fields have been collected. You can now confirm the details with the user.")>>)
        \o <<Line("IMPORTANT: Use this information to avoid asking for details that have already been provided. Focus on collecting missing required fields.")>>

\* lines 139-166: what process_message puts in front of the conversation
\* call for the profile read back after the merge
context_msg(details) ==
    create_context_message(details, missing_required_fields(details),
                           missing_optional_fields(details))

\* SessionRepository.add_message
add_message(history, role) == Append(history, role)

\* lines 167-180: the list passed to chat.completions.create.  An entry is
\* its role and the position in the session's history of the message it
\* carries, 0 for the two system entries; current is the position at which
\* chat stored the message of this turn.
conversation_messages(message_history, current) ==
    LET n == Len(message_history)
        first == IF n > 10 THEN n - 9 ELSE 1
    IN <<[role |-> "system", entry |-> 0], [role |-> "system", entry |-> 0]>>
        \o [i \in 1..(n - first + 1) |->
                [role |-> message_history[first + i - 1], entry |-> first + i - 1]]
        \o <<[role |-> "user", entry |-> current]>>

\* lines 164-203: the conversation call, over the history chat has already
\* put the user's message in
collect(m, check) ==
    \E ok \in BOOLEAN :
        /\ turn' = Returned(m, "collecting", Some(check),
                            IF ok THEN "<assistant reply>" ELSE ChatErrorResponse)
                    @@ [sent |-> conversation_messages(add_message(messages, "user"),
                                                      Len(messages) + 1)]
        /\ pc' = "idle"
        /\ NewWorkflow
        /\ UNCHANGED <<confirmed, itinerary, cost_breakdown>>

\* lines 114-162, for an utterance that is neither request above
extract_and_route(m) ==
    \E response \in {Null, Some(m.response)} :
        LET existing_trip_details == get_trip_details(trip_details)
            extracted_details == extract(m.text, existing_trip_details, response)
            key == update_trip_details(trip_details, to_dict(extracted_details))
            details == get_trip_details(key)
            trip_dict == to_dict(details)
            check == TextFacts[m.text].check
            u == [text |-> m.text,
                  extraction |-> IF response = Null THEN "failed" ELSE "parsed"]
        IN /\ trip_details' = key
           /\ IF \/ DictGet(trip_dict, "start_date") = Some("Error")
                 \/ DictGet(trip_dict, "end_date") = Some("Error")
              THEN /\ turn' = Returned(u, "date_error", Null, DateErrorResponse)
                   /\ pc' = "idle"
                   /\ NewWorkflow
                   /\ UNCHANGED <<confirmed, itinerary, cost_breakdown>>
              ELSE IF has_itinerary(itinerary)
              THEN handle_followup_question(u)
              ELSE IF check /\ is_ready_for_confirmation(details)
              THEN confirm_and_plan(u, details)
              ELSE collect(u, check)

process_message(m) ==
    /\ pc = "idle"
    /\ IF TextFacts[m.text].itinerary_request THEN itinerary_request(m)
       ELSE IF TextFacts[m.text].hotel_request THEN handle_hotel_customization(m)
       ELSE extract_and_route(m)

(***************************************************************************)
(* main.py: POST /chat.  The history entry of the user is written before   *)
(* process_message is called and the assistant's after it has returned.    *)
(***************************************************************************)
MaxHistory == 12

chat(m) ==
    /\ Len(messages) + 2 <= MaxHistory
    /\ process_message(m)
    /\ messages' = IF pc' = "idle"
                   THEN add_message(add_message(messages, "user"), "assistant")
                   ELSE add_message(messages, "user")

\* the except branch of chat around process_message
ProcessingErrorResponse ==
    "I'm having trouble processing your request. Our team has been notified of this issue."

\* what chat returns to the user for a turn that has returned
chat_response(t) == IF t.raised THEN Some(ProcessingErrorResponse) ELSE t.response

(***************************************************************************)
(* A /chat turn in which one Redis call on the trip_details key raises.    *)
(* The calls of the extraction path, in order: the read of                 *)
(* existing_trip_details, the read and the write of update_trip_details,   *)
(* the read of the updated trip_details.                                   *)
(***************************************************************************)
\* process_message lines 114-162 with the call fail raising.  When redis.get
\* raises, the except branch of SessionRepository.get_trip_details logs and
\* returns the default TripDetails().
extract_and_route_failing(m, fail) ==
    \E response \in {Null, Some(m.response)} :
        LET existing_trip_details ==
                IF fail = "read_existing" THEN TripDetails
                ELSE get_trip_details(trip_details)
            extracted_details == extract(m.text, existing_trip_details, response)
            current == IF fail = "read_current" THEN TripDetails
                       ELSE get_trip_details(trip_details)
            key == Some(to_dict(update(current, to_dict(extracted_details))))
            details == IF fail = "read_updated" THEN TripDetails
                       ELSE get_trip_details(key)
            check == TextFacts[m.text].check
            u == [text |-> m.text,
                  extraction |-> IF response = Null THEN "failed" ELSE "parsed",
                  fault |-> fail]
        IN IF fail = "write"
           THEN /\ turn' = [seq |-> 1 - turn.seq, message |-> m.text,
                            extraction |-> u.extraction, fault |-> fail,
                            handler |-> "none", check |-> Null, plan_calls |-> 0,
                            response |-> Null, raised |-> TRUE]
                /\ pc' = "idle"
                /\ NewWorkflow
                /\ UNCHANGED store
           ELSE /\ trip_details' = key
                /\ IF has_itinerary(itinerary)
                   THEN handle_followup_question(u)
                   ELSE IF check /\ is_ready_for_confirmation(details)
                   THEN confirm_and_plan(u, details)
                   ELSE collect(u, check)

\* Redis fails within the first turns of a session only
MaxFaultHistory == 4

chat_store_failure(m) ==
    /\ Len(messages) + 2 <= MaxFaultHistory
    /\ pc = "idle"
    /\ ~TextFacts[m.text].itinerary_request
    /\ ~TextFacts[m.text].hotel_request
    /\ \E fail \in {"read_existing", "read_current", "write", "read_updated"} :
            extract_and_route_failing(m, fail)
    /\ messages' = IF pc' = "idle"
                   THEN add_message(add_message(messages, "user"), "assistant")
                   ELSE add_message(messages, "user")

(***************************************************************************)
(* services/supervisors/travel_supervisor.py                               *)
(***************************************************************************)
\* keyword arguments the supervisor passes, and the parameters the services
\* declare
PassedTo ==
    [flights |-> {"origin", "destination", "start_date", "end_date", "travelers"},
     hotels |-> {"destination", "start_date", "end_date", "travelers", "budget"},
     activities |-> {"destination", "preferences"}]

DeclaredBy ==
    [flights |-> {"origin", "destination", "start_date", "end_date", "travelers"},
     hotels |-> {"destination", "start_date", "end_date", "travelers"},
     activities |-> {"destination", "preferences"}]

\* the values _hotels_agent and _activities_agent pass, read from the
\* trip_details dict of the TravelState with dict.get
hotels_arguments(details) ==
    [destination |-> DictGet(details, "destination"),
     start_date |-> DictGet(details, "start_date"),
     end_date |-> DictGet(details, "end_date"),
     travelers |-> IF "travelers" \in DOMAIN details THEN details.travelers ELSE Some(1),
     budget |-> DictGet(details, "budget")]

activities_arguments(details) ==
    [destination |-> DictGet(details, "destination"),
     preferences |-> IF "activity_preferences" \in DOMAIN details
                     THEN details.activity_preferences
                     ELSE Some("")]

\* a call with a keyword the callee does not declare raises TypeError
Callable(a) == PassedTo[a] \subseteq DeclaredBy[a]

\* an agent whose provider call is not inside try/except
agent_uncaught(a, ended) ==
    CASE ended = "returned" -> (a :> ProviderValue(a))
      [] ended = "no_plan" -> (a :> NoneValue)
      [] ended = "raised" -> [exception |-> "<" \o a \o " exception>"]

\* _flights_agent / _hotels_agent / _activities_agent: the provider call in
\* try/except, an exception becoming [{"error": str(e)}] in the agent's slot
agent(a, ended) ==
    CASE ended = "returned" -> (a :> ProviderValue(a))
      [] ended = "no_plan" -> (a :> NoneValue)
      [] ended = "raised" -> (a :> ErrorMarker("<" \o a \o " exception>"))

\* each agent awaited before the next is created
create_tasks_one_at_a_time(tasks) ==
    [a \in Agents |-> IF a = "flights" THEN "scheduled" ELSE "none"]

\* asyncio.create_task for the three agents
create_tasks(tasks) == [a \in Agents |-> "scheduled"]

\* _supervisor_start
supervisor_start ==
    /\ pc = "start"
    /\ pc' = "parallel_booking"
    /\ UNCHANGED <<store, messages, turn, workflow>>

\* _run_parallel_agents up to the await of asyncio.gather
run_parallel_agents ==
    /\ pc = "parallel_booking"
    /\ task' = create_tasks(task)
    /\ pc' = "gather"
    /\ UNCHANGED <<store, messages, turn, call, result, state, prompt>>

\* the event loop runs the tasks' first steps in the order of creation
Order == <<"flights", "hotels", "activities">>

Runnable(a) ==
    /\ task[a] = "scheduled"
    /\ \A i, j \in 1..Len(Order) : (Order[j] = a /\ i < j) => task[Order[i]] # "scheduled"

\* how a provider coroutine can leave its first step: suspended at an await
\* inside the provider, or finished without ever suspending
FirstStep(a) ==
    IF ~Callable(a) THEN {"raised"}
    ELSE CASE a = "flights" -> {"suspended", "raised"}
           [] a = "hotels" -> {"suspended", "raised"}
           [] a = "activities" -> {"suspended", "returned", "no_plan", "raised"}

\* how a suspended provider coroutine can settle; only get_activities
\* returns None for a failed lookup
Settled(a) ==
    IF a = "activities" THEN {"returned", "no_plan", "raised"} ELSE {"returned", "raised"}

Finish(a, ended) ==
    /\ task' = [task EXCEPT ![a] = "done"]
    /\ call' = [call EXCEPT ![a] = ended]
    /\ result' = [result EXCEPT ![a] = Some(agent(a, ended))]

agent_step(a) ==
    /\ pc = "gather"
    /\ Runnable(a)
    /\ \E ended \in FirstStep(a) :
          IF ended = "suspended"
          THEN /\ task' = [task EXCEPT ![a] = "suspended"]
               /\ UNCHANGED <<call, result>>
          ELSE Finish(a, ended)
    /\ UNCHANGED <<store, messages, pc, turn, state, prompt>>

agent_settle(a) ==
    /\ pc = "gather"
    /\ task[a] = "suspended"
    /\ \E ended \in Settled(a) : Finish(a, ended)
    /\ UNCHANGED <<store, messages, pc, turn, state, prompt>>

\* an except branch that answers with the text of the exception
plan_failed_leaking ==
    /\ turn' = [turn EXCEPT !.response = Some("Error: <exception>")]
    /\ messages' = add_message(messages, "assistant")
    /\ pc' = "idle"
    /\ NewWorkflow

\* _generate_itinerary's except branch, returning through process_message to
\* chat; the workflow's locals are gone
plan_failed ==
    /\ turn' = [turn EXCEPT !.response = Some(PlanErrorResponse)]
    /\ messages' = add_message(messages, "assistant")
    /\ pc' = "idle"
    /\ NewWorkflow

\* dict.get(key, default) on a result dict
GetOr(d, k, default) == IF k \in DOMAIN d THEN d[k] ELSE default

\* asyncio.gather returns once the three tasks are done, and raises what a
\* task raised; then state.update
gather_returns ==
    /\ pc = "gather"
    /\ \A a \in Agents : task[a] = "done"
    /\ IF \E a \in Agents : "exception" \in DOMAIN result[a][1]
       THEN /\ plan_failed
            /\ UNCHANGED store
       ELSE /\ state' = Some([state[1] EXCEPT
                                !.flights = GetOr(result["flights"][1], "flights", EmptyList),
                                !.hotels = GetOr(result["hotels"][1], "hotels", ""),
                                !.activities =
                                    GetOr(result["activities"][1], "activities", "")])
            /\ pc' = "create_itinerary"
            /\ UNCHANGED <<store, messages, turn, task, call, result, prompt>>

\* _create_itinerary up to the await of model.ainvoke
create_itinerary ==
    /\ pc = "create_itinerary"
    /\ prompt' = Some([trip_details |-> state[1].trip_details,
                       flights |-> state[1].flights,
                       hotels |-> IF "selected_hotel" \in DOMAIN state[1].trip_details
                                  THEN state[1].trip_details.selected_hotel
                                  ELSE state[1].hotels,
                       activities |-> state[1].activities])
    /\ pc' = "ainvoke"
    /\ UNCHANGED <<store, messages, turn, task, call, result, state>>

\* response.content of the synthesis call: a text, possibly empty
Itineraries == {"", "## Your trip", "## Your trip\n### Budget Breakdown"}

\* model.ainvoke returns the itinerary text, or raises
ainvoke_returns ==
    /\ pc = "ainvoke"
    /\ \/ \E text \in Itineraries :
            /\ state' = Some([state[1] EXCEPT !.itinerary = text])
            /\ pc' = "finish"
            /\ UNCHANGED <<store, messages, turn, task, call, result, prompt>>
       \/ /\ plan_failed
          /\ UNCHANGED store

\* ChatManager._extract_budget_breakdown: None without a budget section, else
\* whatever the patterns find
has_budget_section(text) ==
    \/ Contains("budget breakdown", PyLower(text))
    \/ Contains("estimated costs", PyLower(text))

\* computed once per itinerary text
BudgetSection == Table(has_budget_section, Itineraries \cup {DefaultItinerary})

\* _supervisor_finish, then _generate_itinerary lines 285-302, returning
\* through process_message to chat
generate_itinerary_returns ==
    /\ pc = "finish"
    /\ LET text == IF "itinerary" \in DOMAIN state[1] THEN state[1].itinerary
                   ELSE DefaultItinerary
       IN /\ itinerary' = set_itinerary(text)
          /\ \E found \in {FALSE, BudgetSection[text]} :
                cost_breakdown' = IF found THEN Some("<breakdown>") ELSE cost_breakdown
          /\ turn' = [turn EXCEPT !.response = Some(text)]
    /\ messages' = add_message(messages, "assistant")
    /\ pc' = "idle"
    /\ NewWorkflow
    /\ UNCHANGED <<trip_details, confirmed>>

\* a reset written before the itinerary key existed
reset_session_keeping_itinerary ==
    /\ trip_details' = Null
    /\ confirmed' = Null
    /\ cost_breakdown' = Null
    /\ messages' = <<>>
    /\ UNCHANGED <<itinerary, pc, turn, workflow>>

\* SessionRepository.reset_session (POST /reset/{session_id})
reset_session ==
    /\ trip_details' = Null
    /\ confirmed' = Null
    /\ itinerary' = Null
    /\ cost_breakdown' = Null
    /\ messages' = <<>>
    /\ UNCHANGED <<pc, turn, workflow>>

Next ==
    \/ \E m \in Messages : chat(m)
    \/ supervisor_start
    \/ run_parallel_agents
    \/ \E a \in Agents : agent_step(a)
    \/ \E a \in Agents : agent_settle(a)
    \/ gather_returns
    \/ create_itinerary
    \/ ainvoke_returns
    \/ generate_itinerary_returns
    \/ reset_session

Spec == Init /\ [][Next]_vars

\* the same with Redis failing now and then on the trip_details key
NextStoreFailure ==
    \/ Next
    \/ \E m \in Messages : chat_store_failure(m)

SpecStoreFailure == Init /\ [][NextStoreFailure]_vars

(***************************************************************************)
(* The two _check_confirmation methods on their own: a message is drawn,   *)
(* then classified by either manager.                                      *)
(***************************************************************************)
MaxGap == 2

Range(list) == {list[i] : i \in 1..Len(list)}

RECURSIVE Fillers(_)
Fillers(n) == IF n = 0 THEN "" ELSE "the " \o Fillers(n - 1)

\* every keyword of either list alone, bare and padded, and every keyword
\* with every negation word, in both orders, up to MaxGap words apart
ConfirmInputs ==
    LET affirmative == Range(confirmation_keywords)
        negation == Range(negation_words) \cup Range(negation_prefixes)
    IN {t : t \in affirmative \cup negation}
       \cup {" " \o UpperOf(Char(t, 1)) \o SubSeq(t, 2, Len(t)) \o "\n" :
                t \in affirmative \cup negation}
       \cup {a \o " " \o Fillers(g) \o n :
                a \in affirmative, n \in negation, g \in 0..MaxGap}
       \cup {n \o " " \o Fillers(g) \o a :
                a \in affirmative, n \in negation, g \in 0..MaxGap}

InitConfirm ==
    /\ trip_details = Null
    /\ confirmed = Null
    /\ itinerary = Null
    /\ cost_breakdown = Null
    /\ messages = <<>>
    /\ pc = "idle"
    /\ turn \in {[NoTurn EXCEPT !.message = t] : t \in ConfirmInputs}
    /\ NoWorkflow

ChatManager_check_confirmation ==
    /\ turn.handler = "none"
    /\ turn' = [turn EXCEPT !.handler = "ChatManager._check_confirmation",
                            !.check = Some(check_confirmation(turn.message))]
    /\ UNCHANGED <<store, messages, pc, workflow>>

AssistantsManager_check_confirmation ==
    /\ turn.handler = "none"
    /\ turn' = [turn EXCEPT !.handler = "AssistantsManager._check_confirmation",
                            !.check = Some(assistants_check_confirmation(turn.message))]
    /\ UNCHANGED <<store, messages, pc, workflow>>

NextConfirm ==
    \/ ChatManager_check_confirmation
    \/ AssistantsManager_check_confirmation

SpecConfirm == InitConfirm /\ [][NextConfirm]_vars

(***************************************************************************)
(* managers/assistants_manager.py: the run that                            *)
(* AssistantsManager.process_message starts on the thread and waits for.   *)
(* turn holds the locals run and tool_outputs; pc is "run_wait" while the  *)
(* coroutine is suspended in asyncio.sleep(0.5).                           *)
(***************************************************************************)
\* what runs.create, runs.retrieve and runs.submit_tool_outputs can return: a
\* run in one of the statuses of the run API, with one tool call when it
\* requires action
Runs ==
    LET RunStatuses ==
            {"queued", "in_progress", "cancelling", "cancelled", "failed",
             "completed", "incomplete", "expired"}
        ToolDates == {"2026-12-01", "2026-12-12", "2027-05-03", "soon"}
        ToolCalls ==
            [name : {"validate_dates"}, start_date : ToolDates, end_date : ToolDates]
                \cup {[name |-> "get_weather", start_date |-> "soon", end_date |-> "soon"]}
    IN {[status |-> st, tool_call |-> Null] : st \in RunStatuses}
        \cup {[status |-> "requires_action", tool_call |-> Some(c)] : c \in ToolCalls}

\* the tool_outputs the loop builds for a run that requires action: the
\* answer of validate_dates, nothing for any other function
tool_outputs_for(run) ==
    LET c == run.tool_call[1]
        parsed == c.start_date \in DOMAIN DateOrdinal /\ c.end_date \in DOMAIN DateOrdinal
    IN IF c.name # "validate_dates" THEN <<>>
       ELSE IF parsed /\ DateOrdinal[c.end_date] > DateOrdinal[c.start_date]
       THEN <<"True">>
       ELSE <<"False">>

\* the while test over the run in hand and what follows it: back to sleep
\* while the status is one of the three polled ones, else the return, with
\* the text of the assistant message messages.list shows, if it shows one
run_wait(run, tool_outputs, listing) ==
    LET locals == [turn EXCEPT !.handler = "AssistantsManager.process_message",
                               !.run = Some(run),
                               !.tool_outputs = tool_outputs]
    IN IF run.status \in {"queued", "in_progress", "requires_action"}
       THEN /\ pc' = "run_wait"
            /\ turn' = locals
       ELSE /\ pc' = "idle"
            /\ turn' = [locals EXCEPT !.response =
                            IF run.status = "failed"
                            THEN Some("I'm sorry, but I encountered an error processing your request. Please try again.")
                            ELSE IF listing # Null THEN listing
                            ELSE Some("I'm having trouble processing your request. Please try again.")]

InitRun ==
    /\ trip_details = Null
    /\ confirmed = Null
    /\ itinerary = Null
    /\ cost_breakdown = Null
    /\ messages = <<>>
    /\ pc = "idle"
    /\ turn = [handler |-> "none", run |-> Null, tool_outputs |-> Null, response |-> Null]
    /\ NoWorkflow

runs_create ==
    /\ pc = "idle"
    /\ turn.handler = "none"
    /\ \E run \in Runs, listing \in {Some("assistant text"), Null} :
            run_wait(run, turn.tool_outputs, listing)
    /\ UNCHANGED <<store, messages, workflow>>

\* asyncio.sleep returns: runs.retrieve, the tool calls of a run that
\* requires action answered and submitted, and the while test again
runs_retrieve ==
    /\ pc = "run_wait"
    /\ \E retrieved \in Runs, submitted \in Runs, listing \in {Some("assistant text"), Null} :
            IF retrieved.status = "requires_action"
            THEN run_wait(submitted, Some(tool_outputs_for(retrieved)), listing)
            ELSE run_wait(retrieved, turn.tool_outputs, listing)
    /\ UNCHANGED <<store, messages, workflow>>

NextRun ==
    \/ runs_create
    \/ runs_retrieve

\* the event loop resumes a coroutine whose sleep is over, and each call to
\* the run API returns
SpecRun == InitRun /\ [][NextRun]_vars /\ WF_vars(runs_create) /\ WF_vars(runs_retrieve)

(***************************************************************************)
(* Properties.  A step is a chat turn when it flips turn.seq.              *)
(***************************************************************************)
TurnStep == turn'.seq # turn.seq

TurnWith(text) == TurnStep /\ turn'.message = text

StoredProfile == get_trip_details(trip_details)

MissingRequired(profile) ==
    {f \in {"origin", "destination", "start_date", "end_date", "travelers"} :
        ~Truthy(f, profile[f])}

\* the confirmed key is written "1": it becomes "1", or a planning turn starts
ConfirmedWritten ==
    /\ confirmed' = Some("1")
    /\ confirmed # Some("1") \/ (TurnStep /\ turn'.plan_calls > 0)

\* C1: the confirmed flag is written true only by a chat turn, and only when
\* the profile read back from the store after that turn's merge has no
\* missing required field.
C1_ConfirmedOnlyWhenComplete ==
    [][ConfirmedWritten =>
            /\ TurnStep
            /\ MissingRequired(get_trip_details(trip_details')) = {}]_vars

\* a planning turn has just written the flag over a complete profile
C1_Witness ==
    /\ pc = "start"
    /\ confirmed = Some("1")
    /\ turn.handler = "planning"
    /\ MissingRequired(StoredProfile) = {}

\* C2: when a required field is missing, a "yes" turn leaves the confirmed
\* flag alone, does not call plan_trip, stores no itinerary, and leaves the
\* stored profile, date confidence tags included, as it was.
C2_IncompleteYesChangesNothing ==
    [][(TurnWith("yes") /\ MissingRequired(StoredProfile) # {}) =>
            /\ confirmed' = confirmed
            /\ turn'.plan_calls = 0
            /\ itinerary' = itinerary
            /\ get_trip_details(trip_details') = StoredProfile]_vars

C4_DontConfirmNeverConfirms ==
    [][TurnWith("don't confirm") =>
            /\ turn'.check # Some(TRUE)
            /\ ~assistants_check_confirmation(turn'.message)
            /\ confirmed' = confirmed
            /\ turn'.plan_calls = 0
            /\ pc' = "idle"]_vars

\* "don't confirm" was classified over a complete profile with no itinerary
C4_Witness ==
    /\ turn.message = "don't confirm"
    /\ turn.check = Some(FALSE)
    /\ MissingRequired(StoredProfile) = {}
    /\ itinerary = Null

AffirmativeTokens ==
    {"yes", "yeah", "yep", "sure", "ok", "okay", "proceed", "confirm", "book",
     "go ahead", "sounds good", "please"}

NegationTokens == {"no", "nope", "don't", "not", "cancel"}

\* the words of token occur, adjacent and in order, among the words of text
HasToken(text, token) ==
    LET words == PySplit(PyLower(text))
        part == PySplit(token)
    IN \E i \in 1..(Len(words) - Len(part) + 1) :
            SubSeq(words, i, i + Len(part) - 1) = part

ClassifiedByChatManager == turn.handler = "ChatManager._check_confirmation"

\* C5: each of the twelve affirmative tokens, sent alone, is classified as a
\* confirmation by ChatManager._check_confirmation.
C5_LoneAffirmativeConfirms ==
    (ClassifiedByChatManager /\ turn.message \in AffirmativeTokens) =>
        turn.check = Some(TRUE)

\* C6: a message holding both an affirmative token and a negation token as
\* words, in either order and any distance apart, is classified as not a
\* confirmation by ChatManager._check_confirmation.
C6_NegationWins ==
    (/\ ClassifiedByChatManager
     /\ \E t \in AffirmativeTokens : HasToken(turn.message, t)
     /\ \E t \in NegationTokens : HasToken(turn.message, t)) =>
        turn.check = Some(FALSE)

\* an affirmative word followed, MaxGap words later, by a negation word that
\* no negation prefix rule covers
C6_Witness ==
    /\ ClassifiedByChatManager
    /\ turn.message = "please " \o Fillers(MaxGap) \o "cancel"
    /\ turn.check = Some(FALSE)

\* the fields the stored JSON dict holds a value for
StoredFields(key) ==
    IF key = Null THEN {} ELSE {f \in DOMAIN key[1] : key[1][f] # Null}

OnlyRaised(a) ==
    /\ call[a] = "raised"
    /\ \A b \in Agents \ {a} : call[b] = "returned"

\* bundle holds an error marker for a and the providers' values for the rest
IsolatedIn(bundle, a) ==
    /\ bundle[a].kind = "error"
    /\ \A b \in Agents \ {a} : bundle[b] = ProviderValue(b)

\* C8: when exactly one provider call raises, the workflow goes on from the
\* gather to _create_itinerary and on to the model call, with an error
\* marker in that provider's slot and the other two providers' values in
\* theirs.
C8_OneFailureIsIsolated ==
    [][\A a \in Agents : OnlyRaised(a) =>
            /\ (pc = "gather" /\ pc' # "gather") =>
                    /\ pc' = "create_itinerary"
                    /\ IsolatedIn(state'[1], a)
            /\ (pc = "create_itinerary" /\ pc' # "create_itinerary") =>
                    /\ pc' = "ainvoke"
                    /\ IsolatedIn(prompt'[1], a)]_vars

\* the model call is in flight with one error marker and two values
C8_Witness ==
    /\ pc = "ainvoke"
    /\ \E a \in Agents : OnlyRaised(a) /\ IsolatedIn(prompt[1], a)

\* C9: when _create_itinerary has built its bundle, all three lookups have
\* settled, and each slot holds the provider's result, or an error marker
\* when the lookup failed.
C9_BundleCompleteAtSynthesis ==
    prompt # Null =>
        \A a \in Agents :
            /\ task[a] = "done"
            /\ IF call[a] = "returned" THEN prompt[1][a] = ProviderValue(a)
               ELSE prompt[1][a].kind = "error"

\* C10: the three agent tasks are all created before the workflow waits at
\* the gather and before any of them runs, so none waits for another to
\* complete.
C10_AllStartedBeforeWaiting ==
    /\ pc = "gather" => \A a \in Agents : task[a] # "none"
    /\ (\E a \in Agents : task[a] \in {"suspended", "done"}) =>
            \A a \in Agents : task[a] # "none"

\* all three tasks are pending at once, the first already inside its provider
C10_Witness ==
    /\ pc = "gather"
    /\ task["flights"] = "suspended"
    /\ \A a \in Agents : task[a] \in {"scheduled", "suspended"}

\* the workflow of a planning turn is in flight
Planning == pc \notin {"idle", "finish"}

\* C11: when plan_trip raises, the planning turn answers with the fixed
\* failure message and no itinerary is stored for the session; the next
\* turn with an affirmative message over a complete profile starts planning
\* again.
C11_FailedPlanStoresNothing ==
    [][/\ (Planning /\ pc' = "idle") =>
            /\ turn'.response = Some(PlanErrorResponse)
            /\ itinerary = Null
            /\ itinerary' = Null
            /\ ~has_itinerary(itinerary')
       /\ (/\ TurnStep
           /\ turn.handler = "planning" /\ turn.response = Some(PlanErrorResponse)
           /\ turn'.message = "yes"
           /\ MissingRequired(get_trip_details(trip_details')) = {}) =>
            /\ turn'.handler = "planning"
            /\ turn'.plan_calls = 1
            /\ pc' = "start"]_vars

\* a planning turn has failed over a complete profile: the fixed message is
\* the response and nothing is stored
C11_Witness ==
    /\ pc = "idle"
    /\ turn.handler = "planning"
    /\ turn.response = Some(PlanErrorResponse)
    /\ itinerary = Null
    /\ confirmed = Some("1")
    /\ MissingRequired(StoredProfile) = {}

\* C12: while an itinerary is stored, every chat turn, whatever the text, is
\* handled by _handle_followup_question.
C12_StoredItineraryRoutesToFollowup ==
    [][(TurnStep /\ itinerary # Null) => turn'.handler = "followup"]_vars

\* C13: while an itinerary is stored, a chat turn leaves the stored profile
\* as it was.
C13_FollowupKeepsProfile ==
    [][(TurnStep /\ itinerary # Null) =>
            get_trip_details(trip_details') = StoredProfile]_vars

\* the utterances that hold "day-by-day" or "detailed", whatever the case
AsksForDetail ==
    {text \in {m.text : m \in Messages} :
        \E word \in {"day-by-day", "detailed"} : Contains(word, PyLower(text))}

\* C14: a follow-up turn replaces the stored itinerary by its response when
\* the text-generation call succeeded and the message holds "day-by-day" or
\* "detailed"; any other follow-up turn, a failed one included, leaves the
\* stored itinerary as it was.
C14_FollowupStoresOnlyDetail ==
    [][(TurnStep /\ turn'.handler = "followup") =>
            IF /\ turn'.response # Some(FollowupErrorResponse)
               /\ turn'.message \in AsksForDetail
            THEN itinerary' = turn'.response
            ELSE itinerary' = itinerary]_vars

\* a follow-up that did not ask for detail was answered and the synthesized
\* itinerary is still the stored one
C14_Witness ==
    /\ turn.handler = "followup"
    /\ turn.message \notin AsksForDetail
    /\ turn.response = Some("<follow-up reply>")
    /\ itinerary # Null /\ itinerary[1] \in Itineraries

\* a step that writes session keys while no chat turn starts, advances or ends
ResetStep ==
    /\ pc' = pc /\ turn' = turn /\ UNCHANGED workflow
    /\ <<store, messages>>' # <<store, messages>>

\* C15: after reset_session, from any state of the session, every key of the
\* session is absent, so the profile reads as the default with every field
\* unknown, confirmed reads false, has_itinerary reads false and the history
\* is empty; a second reset has nothing left to change.
C15_ResetYieldsEmptyDefault ==
    [][ResetStep =>
            /\ get_trip_details(trip_details') = TripDetails
            /\ MissingRequired(get_trip_details(trip_details')) =
                    {"origin", "destination", "start_date", "end_date", "travelers"}
            /\ ~is_confirmed(confirmed')
            /\ ~has_itinerary(itinerary')
            /\ messages' = <<>>
            /\ trip_details' = Null /\ confirmed' = Null /\ itinerary' = Null]_vars

\* the session was reset while its planning turn was in flight
C15_Witness ==
    /\ Planning
    /\ trip_details = Null
    /\ confirmed = Null
    /\ itinerary = Null
    /\ messages = <<>>

\* what the extraction model's reply states for field k of the utterance
StatedIn(text, k) == (CHOOSE m \in Messages : m.text = text).response[k]

Horizon == 180

\* the date string names a day before today or more than Horizon days ahead
OutOfRange(date) ==
    /\ date # Null
    /\ date[1] \in DOMAIN DateOrdinal
    /\ \/ DateOrdinal[date[1]] < DateOrdinal[Now.date]
       \/ DateOrdinal[date[1]] > DateOrdinal[Now.date] + Horizon

\* the utterances for which the reply states an explicit date out of range
OutOfRangeTexts ==
    {text \in {m.text : m \in Messages} :
        /\ StatedIn(text, "date_reference") = Null
        /\ \E k \in {"start_date", "end_date"} : OutOfRange(StatedIn(text, k))}

\* C16: a turn whose extraction yields a start or end date in the past or
\* more than 180 days ahead stores the Error sentinel for that date and
\* answers with the date-correction message, without confirming.
C16_OutOfRangeDateIsReported ==
    [][(TurnStep /\ turn'.extraction = "parsed" /\ turn'.message \in OutOfRangeTexts) =>
            /\ \A k \in {"start_date", "end_date"} :
                    OutOfRange(StatedIn(turn'.message, k)) =>
                        get_trip_details(trip_details')[k] = Some("Error")
            /\ turn'.response = Some(DateErrorResponse)
            /\ turn'.plan_calls = 0
            /\ confirmed' = confirmed]_vars

\* both dates are stored and the end is not after the start
EndNotAfterStart(profile) ==
    /\ profile.start_date # Null /\ profile.start_date[1] \in DOMAIN DateOrdinal
    /\ profile.end_date # Null /\ profile.end_date[1] \in DOMAIN DateOrdinal
    /\ DateOrdinal[profile.end_date[1]] <= DateOrdinal[profile.start_date[1]]

\* C17: over a complete stored profile whose end date is not after its
\* start date, and stays so after the turn's merge, no chat turn calls
\* plan_trip or starts a workflow that stores an itinerary.
C17_InvertedDatesNeverPlan ==
    [][(/\ TurnStep
        /\ MissingRequired(StoredProfile) = {}
        /\ EndNotAfterStart(StoredProfile)
        /\ EndNotAfterStart(get_trip_details(trip_details'))) =>
            /\ turn'.plan_calls = 0
            /\ pc' = "idle"
            /\ itinerary' = itinerary]_vars

\* C18: a chat turn whose extraction call raised or gave an unparseable
\* reply merges into the stored profile what the regex extractor finds in
\* the same message, and the turn does not fail for it.
C18_FailedExtractionFallsBackToRegex ==
    [][(TurnStep /\ turn'.extraction = "failed") =>
            /\ trip_details' = update_trip_details(trip_details,
                                                   to_dict(regex_extract(turn'.message)))
            /\ ~turn'.raised]_vars

\* both stored dates carry the tag "inferred"
BothInferred(profile) ==
    /\ profile.start_date # Null
    /\ profile.end_date # Null
    /\ \A k \in {"start_date", "end_date"} :
            DictGet(profile.confidence_levels[1], k) = Some("inferred")

\* the extraction of the turn's message gave dates: explicit ones or a
\* vague reference
GivesDates(t) ==
    /\ t.extraction = "parsed"
    /\ \E k \in {"start_date", "end_date", "date_reference"} : StatedIn(t.message, k) # Null

\* C19: a chat turn whose message gives a vague date reference leaves both
\* stored dates tagged "inferred", and every later chat turn that gives no
\* dates keeps both tags, so that needs_date_confirmation stays true.
C19_InferredDatesStayTagged ==
    [][TurnStep =>
        /\ (/\ turn'.extraction = "parsed"
            /\ StatedIn(turn'.message, "date_reference") # Null) =>
                BothInferred(get_trip_details(trip_details'))
        /\ (BothInferred(StoredProfile) /\ ~GivesDates(turn')) =>
                /\ BothInferred(get_trip_details(trip_details'))
                /\ needs_date_confirmation(get_trip_details(trip_details'))]_vars

\* a step of the planning workflow that is not the return of a provider's
\* lookup: the event loop takes it by itself
StepWithoutProvider ==
    \/ supervisor_start
    \/ run_parallel_agents
    \/ \E a \in Agents : agent_step(a)
    \/ gather_returns
    \/ create_itinerary
    \/ ainvoke_returns
    \/ generate_itinerary_returns

\* C20: a planning invocation never depends on a provider's lookup
\* returning: while a turn is planning, some step other than the return of
\* a lookup (a timeout among them) can be taken, so that a lookup that
\* never returns cannot keep the turn from synthesis and its response.
C20_PlanningNeverWaitsOnProvider ==
    pc # "idle" => ENABLED StepWithoutProvider

\* a chat turn after which the stored profile has a departure city
turn_sets_origin ==
    \E m \in Messages :
        /\ chat(m)
        /\ Truthy("origin", get_trip_details(trip_details').origin)

\* C21: a session without a departure city can get one: whenever a chat
\* turn can start over a stored profile that lacks origin, some turn, for
\* some message and some reply of the extraction call, stores an origin,
\* so that a profile with no missing required field can be reached from
\* the empty session.
C21_OriginCanBeSet ==
    (/\ pc = "idle"
     /\ Len(messages) + 2 <= MaxHistory
     /\ ~Truthy("origin", StoredProfile.origin)) => ENABLED turn_sets_origin

\* the word occurs in the text at some position
Mentions(text, word) ==
    \E i \in 1..(Len(text) - Len(word) + 1) : SubSeq(text, i, i + Len(word) - 1) = word

\* the context message tells the model to confirm the details with the user
AsksConfirmation(context) ==
    \E k \in 1..Len(context) :
        /\ context[k].kind = "text"
        /\ \E word \in {"confirm", "Confirm", "CONFIRM"} : Mentions(context[k].text, word)

\* C22: a collecting turn after whose merge no required field is missing
\* puts a context message in front of the conversation call that asks for
\* confirmation of the details, with or without budget and preferences.
C22_CompleteProfileAsksConfirmation ==
    [][(/\ TurnStep
        /\ turn'.handler = "collecting"
        /\ MissingRequired(get_trip_details(trip_details')) = {}) =>
            AsksConfirmation(context_msg(get_trip_details(trip_details')))]_vars

\* the texts a turn answers with when nothing failed: the replies of the
\* text-generation calls, the hotel options and the itineraries
Replies ==
    {"<assistant reply>", "<follow-up reply>", "<hotel options>", DefaultItinerary}
        \cup Itineraries

\* the fixed messages of the except branches
GenericResponses ==
    {DateErrorResponse, ChatErrorResponse, PlanErrorResponse, FollowupErrorResponse,
     "I encountered an error while customizing your hotel preferences. Please try again."}

\* C23: the response of a chat turn in which something failed is one of the
\* fixed generic messages; it carries no text of the exception raised.
C23_FailureResponseIsGeneric ==
    (turn.response # Null /\ turn.response[1] \notin Replies) =>
        turn.response[1] \in GenericResponses

\* a chat turn in which a call on the trip_details key raised has returned
FailedStoreTurn == TurnStep /\ turn'.fault # "none"

\* C24: a chat turn in which a read or a write of the stored profile fails
\* answers with a generic try-again message and leaves the stored profile,
\* the confirmed flag, the itinerary and the message history as they were.
C24_StoreFailureChangesNothing ==
    [][FailedStoreTurn =>
            /\ trip_details' = trip_details
            /\ confirmed' = confirmed
            /\ itinerary' = itinerary
            /\ messages' = messages
            /\ chat_response(turn') \in
                    {Some(r) : r \in GenericResponses \cup {ProcessingErrorResponse}}]_vars

\* C25: in a planning invocation the activities lookup gets the preferences
\* of the profile and the hotels lookup its budget, and both calls reach
\* their provider: an agent's call ends in an exception only when the
\* provider could be called with what the agent passes.
C25_LookupsGetProfileValues ==
    state # Null =>
        LET details == state[1].trip_details
            Called(a) == task[a] \in {"suspended", "done"}
        IN /\ (Called("activities") /\ "preferences" \in DOMAIN details) =>
                    activities_arguments(details).preferences = details.preferences
           /\ (Called("hotels") /\ "budget" \in DOMAIN details) =>
                    hotels_arguments(details).budget = details.budget
           /\ \A a \in {"hotels", "activities"} : call[a] = "raised" => Callable(a)

\* the reply states an explicit start date that passes date validation and
\* differs from the stored one
CorrectsStartDate(text) ==
    LET new == StatedIn(text, "start_date")
    IN /\ StatedIn(text, "date_reference") = Null
       /\ new # Null
       /\ validate_future_date(new[1]) # Null
       /\ Truthy("start_date", StoredProfile.start_date)
       /\ validate_future_date(new[1]) # StoredProfile.start_date

\* C26: when the stored profile has a start_date and the message yields a
\* different start_date that passes date validation, the stored start_date
\* after the turn is the new value, whatever the old and new dates are.
C26_NewStartDateReplacesStored ==
    [][(TurnStep /\ turn'.extraction = "parsed" /\ CorrectsStartDate(turn'.message)) =>
            get_trip_details(trip_details').start_date =
                validate_future_date(StatedIn(turn'.message, "start_date")[1])]_vars

\* C27: the wait of AssistantsManager.process_message for its run ends: the
\* call returns a response, also when the run stays queued or in_progress.
C27_RunWaitTerminates ==
    <>(pc = "idle" /\ turn.handler = "AssistantsManager.process_message"
            /\ turn.response # Null)

\* C28: a session that has a stored itinerary also has confirmed = true and
\* a stored profile with no missing required field.
C28_ItineraryImpliesConfirmedComplete ==
    has_itinerary(itinerary) =>
        /\ is_confirmed(confirmed)
        /\ MissingRequired(StoredProfile) = {}

\* the turn in flight is past chat's add_message and the history is empty:
\* the session was reset while the turn was suspended
ResetWhileSuspended == pc # "idle" /\ messages = <<>>

EmptyDefaultSession ==
    /\ ~has_itinerary(itinerary)
    /\ cost_breakdown = Null
    /\ ~is_confirmed(confirmed)
    /\ StoredProfile = TripDetails

\* C30: when /reset was processed while a planning turn was suspended at
\* its provider or synthesis calls, the session is in the empty default
\* state once the turn has completed too: no itinerary, no cost breakdown,
\* confirmed false, empty profile.
C30_ResetWinsOverPlanningTurn ==
    [][(ResetWhileSuspended /\ pc' = "idle") => EmptyDefaultSession']_vars

\* the entries of the list that carry the message of this turn, and those
\* that carry earlier messages of the session
CurrentEntries(sent, current) == {i \in 1..Len(sent) : sent[i].entry = current}

EarlierEntries(sent, current) ==
    {i \in 1..Len(sent) : sent[i].entry # 0 /\ sent[i].entry < current}

\* C29: in every collecting turn the list sent to the conversation call
\* holds the current user message exactly once, as its last entry, after at
\* most the ten most recent earlier entries of the history.
C29_CurrentMessageSentOnce ==
    [][(TurnStep /\ turn'.handler = "collecting") =>
            LET sent == turn'.sent
                current == Len(messages) + 1
            IN /\ CurrentEntries(sent, current) = {Len(sent)}
               /\ Cardinality(EarlierEntries(sent, current)) <= 10
               /\ \A i \in EarlierEntries(sent, current) :
                        sent[i].entry >= current - 10]_vars

=============================================================================
